---- MODULE Spec2Model ----
(***************************************************************************)
(* iframe-pubsub: the broker (PubSub, living in the top window), the       *)
(* per-participant Client, and the existence-check protocol, as a state    *)
(* machine.  Windows exchange payloads through postMessage queues, one     *)
(* FIFO queue per (source window, target window) pair.  Timers fire at any *)
(* later moment; the broker's retry timers, which all have the same delay, *)
(* fire in the order they were set.                                        *)
(***************************************************************************)
EXTENDS Integers, Sequences, FiniteSets, TLC

\* ---------------------------------------------------------------- bounds
\* Client objects that may be constructed.
NumClients == 2
\* Client.sendMessage calls.
MaxSends == 2
\* Client.checkClientExists calls.
MaxChecks == 2
\* Largest maxRetries argument handed to checkClientExists.
MaxAttemptsArg == 2
\* Payloads posted by scripts that are not Clients.
MaxForged == 1

\* --------------------------------------------------- program constants
\* PubSub.trySendMessageWithRetry: `if (retryCount < 10)`.
MaxSendRetries == 10

\* ---------------------------------------------------------- value sets
Windows == {"top", "w1", "w2"}
PageIds == {"A", "B"}
Payloads == {"p", "q"}
\* The payload of the n-th sendMessage call.
PayloadOf(n) == IF n % 2 = 1 THEN "p" ELSE "q"
Handlers == {"h1"}
\* The handlers of a Client that replaces its handler.
ReplacingHandlers == {"h1", "h2"}
\* Handlers that fail: one throws, one returns a promise that rejects.
FailingHandlers == {"throws", "rejects"}
\* What an observer does when called: return, return a promise that settles
\* later, or throw.
ObserverKinds == {"sync", "async", "throws"}
\* The empty id stands for an empty, undefined or missing id.
AllIds == PageIds \cup {""}
ClientIds == 1..NumClients
NoClient == 0

\* window.top of a window: the top-level browsing context.
WindowTop(w) == "top"

\* window.parent of a window: w2 is an iframe of w1, w1 an iframe of top.
WindowParent(w) == IF w = "w2" THEN "w1" ELSE "top"

\* Client.constructor: `this.isMainApp = window === window.top`.
IsMainApp(w) == w = WindowTop(w)

\* The window a nested Client posts to: `window.top!.postMessage(...)`.
PostTargetBug(w) == WindowParent(w)
PostTarget(w) == WindowTop(w)

\* ------------------------------------------------------------ payloads
\* One record shape for everything that travels; a field the payload does
\* not carry is "" (falsy, like undefined).  n, by are bookkeeping: the
\* number of the sendMessage call and the Client that posted.
Blank ==
    [type |-> "", pageId |-> "", from |-> "", to |-> "", payload |-> "",
     clientId |-> "", requestId |-> 0, exists |-> FALSE, n |-> 0, by |-> NoClient]

\* types.ts IMessage, built by Client.sendMessage.
IMessageBug(from, to, payload, n, c) ==
    [Blank EXCEPT !.from = to, !.to = from, !.payload = payload, !.n = n, !.by = c]
IMessage(from, to, payload, n, c) ==
    [Blank EXCEPT !.from = from, !.to = to, !.payload = payload, !.n = n, !.by = c]

\* types.ts IRegistrationMessage.
IRegistrationMessage(type, pageId, c) ==
    [Blank EXCEPT !.type = type, !.pageId = pageId, !.by = c]

\* The request posted by checkClientExistsWithRetry.
ExistsCheckMessage(clientId, requestId, from, c) ==
    [Blank EXCEPT !.type = "CLIENT_EXISTS_CHECK", !.clientId = clientId,
                  !.requestId = requestId, !.from = from, !.by = c]

\* The answer posted by PubSub.handleMessage.
ExistsResponseMessageBug(requestId, exists) ==
    [Blank EXCEPT !.type = "CLIENT_EXISTS_RESPONSE", !.exists = exists]
ExistsResponseMessageYes(requestId, exists) ==
    [Blank EXCEPT !.type = "CLIENT_EXISTS_RESPONSE", !.requestId = requestId,
                  !.exists = TRUE]
ExistsResponseMessage(requestId, exists) ==
    [Blank EXCEPT !.type = "CLIENT_EXISTS_RESPONSE", !.requestId = requestId,
                  !.exists = exists]

VARIABLES
    instance,      \* PubSub.instance exists (its listener is on the top window)
    subscribers,   \* PubSub.subscribers: the Map, as its set of entries
    mainCallback,  \* PubSub.mainCallback: "none" or the observer's kind
    clients,       \* the Client objects: state, pageId, window, callback, listener,
                   \* pubsub (the window of the PubSub it holds, or "none")
                   \* (and history: last, the argument of the last onMessage call;
                   \* midCheck, a retry timer of one of its checks was pending
                   \* when it called unregister; cleaned, how its cleanAIChat
                   \* call ended; dup, another live Client had its id when it
                   \* was constructed)
    chan,          \* postMessage queues, one per <<source, target>>
    retryTimers,   \* the broker's pending setTimeout retries, in firing order
    awaiting,      \* relayed messages suspended at `await this.mainCallback(..)`
                   \* (st "pending"), kept afterwards as history: then, where
                   \* the registry would have sent the message when the await
                   \* began; went, where it was sent when the await ended
    checks,        \* the checkClientExists calls
    nextRequestId, \* requestIds handed out so far
    sent,          \* history: the sendMessage calls
    delivered,     \* history: the handler invocations, in order
    observed,      \* history: the observer invocations, in order
    lookups,       \* history: per message, what its first registry lookup found
                   \* (message 0: the payloads no sendMessage call built)
    evals,         \* history: per check, what the registry answered each probe
    lastEvent,     \* history: per id, the last registration event processed
    superseded,    \* history: Clients whose record another registration replaced
    forged         \* history: the number of payloads other scripts posted

vars ==
    <<instance, subscribers, mainCallback, clients, chan, retryTimers, awaiting,
      checks, nextRequestId, sent, delivered, observed, lookups, evals,
      lastEvent, superseded, forged>>

\* ------------------------------------------------------ the Map (registry)
\* An entry: key pageId, value {source?, callback}.  source is "none" for a
\* direct registration, whose callback is the Client's bound handleMessage;
\* for a relayed one, callback forwards to source.  owner is bookkeeping.
Subscriber(pageId, source, callback, owner) ==
    [pageId |-> pageId, source |-> source, callback |-> callback, owner |-> owner]

MapHas(m, k) == \E e \in m : e.pageId = k

MapGet(m, k) == CHOOSE e \in m : e.pageId = k

MapSetBug(m, k, v) == IF MapHas(m, k) THEN m ELSE m \cup {v}
\* Map.prototype.set: the entry under k is replaced.
MapSet(m, k, v) == {e \in m : e.pageId # k} \cup {v}

MapDeleteBug(m, k) == m
\* Map.prototype.delete.
MapDelete(m, k) == {e \in m : e.pageId # k}

\* PubSub.getInstance() in the top window: the window whose static
\* `instance` field is returned.
PubSubGetInstance == "top"

\* The Map of the PubSub that getInstance() returns: `new Map()` in the
\* constructor, which runs only `if (!PubSub.instance)`.
InstanceSubscribersBug(inst, subs) == {}
InstanceSubscribers(inst, subs) == IF inst THEN subs ELSE {}

\* ------------------------------------------------------------- channels
Post(ch, src, dst, data) == [ch EXCEPT ![<<src, dst>>] = Append(@, data)]

Pop(ch, src, dst) == [ch EXCEPT ![<<src, dst>>] = Tail(@)]

\* -------------------------------------------------- Client.handleMessage
\* `if (!message || !message.from || !message.to || message.to !== this.pageId) return`
ClientAcceptsBug(c, message) == message.from # "" /\ message.to # ""
ClientAccepts(c, message) ==
    message.from # "" /\ message.to # "" /\ message.to = clients[c].pageId

\* `try { this.callback(message) } catch (error) { console.error(..) }`: what
\* becomes of a call of handler h.  A throw is caught; a promise is not
\* awaited, so its rejection is handled by nobody.
HandlerOutcome(h) ==
    IF h = "throws" THEN "caught"
    ELSE IF h = "rejects" THEN "unhandled"
    ELSE "returned"

\* Client.handleMessage: the log of handler invocations after the call.
ClientHandleMessage(log, c, message) ==
    IF ClientAccepts(c, message) /\ clients[c].callback # "none"
    THEN Append(log, [c |-> c, h |-> clients[c].callback, msg |-> message,
                      outcome |-> HandlerOutcome(clients[c].callback)])
    ELSE log

\* A message event on a nested window runs every Client listener attached to
\* it, in the order the listeners were added (the order of construction).
RECURSIVE DispatchToListeners(_, _, _, _)
DispatchToListeners(log, w, data, c) ==
    IF c > NumClients THEN log
    ELSE DispatchToListeners(
             IF clients[c].listening /\ clients[c].win = w
             THEN ClientHandleMessage(log, c, data) ELSE log,
             w, data, c + 1)

\* ------------------------------------------------- the broker's delivery
\* PubSub.trySendMessageWithRetry, `if (subscriber) {...}`: an iframe
\* subscriber gets the message by postMessage, a direct one by its callback.
TrySendChan(ch, message) ==
    IF MapHas(subscribers, message.to)
       /\ MapGet(subscribers, message.to).source # "none"
    THEN Post(ch, "top", MapGet(subscribers, message.to).source, message)
    ELSE ch

TrySendLog(log, message) ==
    IF MapHas(subscribers, message.to)
       /\ MapGet(subscribers, message.to).source = "none"
    THEN ClientHandleMessage(log, MapGet(subscribers, message.to).callback, message)
    ELSE log

TrySendTimersBug(timers, message, retryCount) ==
    IF retryCount < MaxSendRetries
    THEN Append(timers, [msg |-> message, retryCount |-> retryCount + 1])
    ELSE timers
TrySendTimersOneMore(timers, message, retryCount) ==
    IF MapHas(subscribers, message.to) THEN timers
    ELSE IF retryCount <= MaxSendRetries
         THEN Append(timers, [msg |-> message, retryCount |-> retryCount + 1])
         ELSE timers
\* PubSub.trySendMessageWithRetry, `if (retryCount < 10) setTimeout(...)`.
TrySendTimers(timers, message, retryCount) ==
    IF MapHas(subscribers, message.to) THEN timers
    ELSE IF retryCount < MaxSendRetries
         THEN Append(timers, [msg |-> message, retryCount |-> retryCount + 1])
         ELSE timers

\* `if (this.mainCallback) { this.mainCallback(message) }`: the log of
\* observer invocations after it; looked is what the registry lookups for
\* the message had found by then.
NotifyBug(log, message) ==
    IF mainCallback # "none" /\ MapHas(subscribers, message.to)
    THEN Append(log, [n |-> message.n, obs |-> mainCallback,
                      looked |-> lookups[message.n]])
    ELSE log
Notify(log, message) ==
    IF mainCallback # "none"
    THEN Append(log, [n |-> message.n, obs |-> mainCallback,
                      looked |-> lookups[message.n]])
    ELSE log

\* PubSub.handleMessage, "Forward to target": no retry on this path.
ForwardChan(ch, message) ==
    IF MapHas(subscribers, message.to)
       /\ MapGet(subscribers, message.to).source # "none"
    THEN Post(ch, "top", MapGet(subscribers, message.to).source, message)
    ELSE ch

ForwardLog(log, message) ==
    IF MapHas(subscribers, message.to)
       /\ MapGet(subscribers, message.to).source = "none"
    THEN ClientHandleMessage(log, MapGet(subscribers, message.to).callback, message)
    ELSE log

ForwardTimersBug(timers, message) ==
    IF MapHas(subscribers, message.to) THEN timers
    ELSE Append(timers, [msg |-> message, retryCount |-> 1])
\* PubSub.handleMessage, `if (!subscriber) return`: the broker's timers after
\* a relayed message was routed; it sets none.
ForwardTimers(timers, message) == timers

\* `this.subscribers.get(message.to)` as a route: "dropped" without a record,
\* "handler" for a top-context record, the record's window otherwise.
Route(message) ==
    IF ~MapHas(subscribers, message.to) THEN "dropped"
    ELSE IF MapGet(subscribers, message.to).source = "none" THEN "handler"
    ELSE MapGet(subscribers, message.to).source

\* handleMessage suspended at `await this.mainCallback(message)`.
Suspend(message) == [msg |-> message, st |-> "pending", then |-> Route(message), went |-> "pending"]

Suspended == {r.msg : r \in {x \in awaiting : x.st = "pending"}}

ResumesBug(fulfilled) == TRUE
\* `await` on a promise: execution goes on to "Forward to target" when the
\* promise is fulfilled, and leaves handleMessage when it is rejected.
Resumes(fulfilled) == fulfilled

\* ------------------------------------------------------------- history
\* The registry's owner of an id, NoClient when the id has no record.
OwnerOf(id) == IF MapHas(subscribers, id) THEN MapGet(subscribers, id).owner ELSE NoClient

\* lastEvent after a registration of id by Client c with delivery target source.
Registered(id, c, source) ==
    [lastEvent EXCEPT ![id] = [kind |-> "reg", owner |-> c, source |-> source,
                               count |-> @.count + 1]]

Unregistered(id, c) ==
    [lastEvent EXCEPT ![id] = [kind |-> "unreg", owner |-> c, source |-> "none",
                               count |-> @.count]]

\* superseded after Client c registered under id.
Superseding(id, c) ==
    IF OwnerOf(id) \notin {NoClient, c} THEN superseded \cup {OwnerOf(id)} ELSE superseded

\* The outcome of the first registry lookup made for message number n.
LookedUp(log, n, found) ==
    [log EXCEPT ![n] = IF @ = "none" THEN (IF found THEN "hit" ELSE "miss") ELSE @]

Unregistering == {c \in ClientIds : clients[c].st = "unreg"}

\* ---------------------------------------------------------------- Init
\* A checkClientExists call: its arguments, the closure of its current
\* attempt (requestId, listener, timers), and bookkeeping: probes made,
\* resolve calls, whether a timeout ended it, whether its listener ran on a
\* response with another requestId, the registry at the call.
IdleCheck ==
    [st |-> "idle", c |-> NoClient, clientId |-> "", maxRetries |-> 0,
     retryCount |-> 0, requestId |-> 0, result |-> FALSE, probes |-> 0,
     listener |-> FALSE, timeout |-> FALSE, retry |-> FALSE, resolved |-> 0,
     ignored |-> FALSE,
     timedOut |-> FALSE, had0 |-> FALSE, reg0 |-> 0]

Init ==
    /\ instance = FALSE
    /\ subscribers = {}
    /\ mainCallback = "none"
    /\ clients = [c \in ClientIds |->
                    [st |-> "none", pageId |-> "", win |-> "top",
                     callback |-> "none", listening |-> FALSE, last |-> "none",
                     midCheck |-> FALSE, cleaned |-> "no", pubsub |-> "none",
                     dup |-> FALSE]]
    /\ chan = [p \in Windows \X Windows |-> <<>>]
    /\ retryTimers = <<>>
    /\ awaiting = {}
    /\ checks = [i \in 1..MaxChecks |-> IdleCheck]
    /\ nextRequestId = 0
    /\ sent = <<>>
    /\ delivered = <<>>
    /\ observed = <<>>
    /\ lookups = [n \in 0..MaxSends |-> "none"]
    /\ evals = [i \in 1..MaxChecks |-> <<>>]
    /\ lastEvent = [id \in AllIds |->
                      [kind |-> "none", owner |-> NoClient, source |-> "none", count |-> 0]]
    /\ superseded = {}
    /\ forged = 0

\* ------------------------------------------------------------- actions
\* The main page calls PubSub.getInstance() (readme, "Start it").
GetInstance ==
    /\ ~instance
    /\ instance' = TRUE
    /\ subscribers' = InstanceSubscribers(instance, subscribers)
    /\ UNCHANGED <<forged, evals, mainCallback, clients, chan, retryTimers, awaiting,
                   checks, nextRequestId, sent, delivered, observed, lookups,
                   lastEvent, superseded>>

\* PubSub.getInstance().onMessage(callback): kind says what the callback
\* does when called: "sync" returns, "async" returns a promise that settles
\* later, "throws" throws.
PubSubOnMessage(kind) ==
    /\ mainCallback # kind
    /\ instance' = TRUE
    /\ subscribers' = InstanceSubscribers(instance, subscribers)
    /\ mainCallback' = kind
    /\ UNCHANGED <<forged, evals, clients, chan, retryTimers, awaiting, checks,
                   nextRequestId, sent, delivered, observed, lookups, lastEvent,
                   superseded>>

\* Some live Client has the id pageId.
IdInUse(pageId) ==
    \E o \in ClientIds : clients[o].st = "live" /\ clients[o].pageId = pageId

\* new Client(pageId) in window w.  Client objects are numbered in the order
\* they are constructed.
Construct(c, w, pageId) ==
    /\ clients[c].st = "none"
    /\ IF c = 1 THEN TRUE ELSE clients[c - 1].st # "none"
    /\ IF IsMainApp(w)
       THEN /\ instance' = TRUE
            /\ subscribers' = MapSet(InstanceSubscribers(instance, subscribers),
                                     pageId, Subscriber(pageId, "none", c, c))
            /\ lastEvent' = Registered(pageId, c, "none")
            /\ superseded' = Superseding(pageId, c)
            /\ clients' = [clients EXCEPT ![c] =
                   [st |-> "live", pageId |-> pageId, win |-> w,
                    callback |-> "none", listening |-> FALSE, last |-> "none",
                     midCheck |-> FALSE, cleaned |-> "no",
                     pubsub |-> IF IsMainApp(w) THEN PubSubGetInstance ELSE "none",
                     dup |-> IdInUse(pageId)]]
            /\ UNCHANGED chan
       ELSE /\ chan' = Post(chan, w, PostTarget(w),
                            IRegistrationMessage("REGISTER", pageId, c))
            /\ clients' = [clients EXCEPT ![c] =
                   [st |-> "live", pageId |-> pageId, win |-> w,
                    callback |-> "none", listening |-> TRUE, last |-> "none",
                     midCheck |-> FALSE, cleaned |-> "no",
                     pubsub |-> IF IsMainApp(w) THEN PubSubGetInstance ELSE "none",
                     dup |-> IdInUse(pageId)]]
            /\ UNCHANGED <<instance, subscribers, lastEvent, superseded>>
    /\ UNCHANGED <<forged, evals, mainCallback, retryTimers, awaiting, checks, nextRequestId,
                   sent, delivered, observed, lookups>>

\* Whether Client.unregister detaches the window listener.
DetachesBug(c) == FALSE
Detaches(c) == TRUE

\* The checks after Client c's unregister(): it clears no timer and removes
\* no messageHandler.
UnregisterChecksBug(c) ==
    [i \in 1..MaxChecks |->
        IF checks[i].c = c
        THEN [checks[i] EXCEPT !.retry = FALSE, !.timeout = FALSE, !.listener = FALSE]
        ELSE checks[i]]
UnregisterChecks(c) == checks

\* Whether a retry timer of a check of Client c is pending.
RetryPending(c) == \E i \in 1..MaxChecks : checks[i].c = c /\ checks[i].retry

\* Client.unregister.
Unregister(c) ==
    /\ clients[c].st = "live"
    /\ checks' = UnregisterChecks(c)
    /\ IF IsMainApp(clients[c].win)
       THEN /\ subscribers' = MapDelete(subscribers, clients[c].pageId)
            /\ lastEvent' = Unregistered(clients[c].pageId, c)
            /\ clients' = [clients EXCEPT ![c].st = "unreg",
                                          ![c].midCheck = RetryPending(c)]
            /\ UNCHANGED chan
       ELSE /\ chan' = Post(chan, clients[c].win, PostTarget(clients[c].win),
                            IRegistrationMessage("UNREGISTER", clients[c].pageId, c))
            /\ clients' = [clients EXCEPT ![c].st = "unreg",
                                          ![c].midCheck = RetryPending(c),
                                          ![c].listening = @ /\ ~Detaches(c)]
            /\ UNCHANGED <<subscribers, lastEvent>>
    /\ UNCHANGED <<forged, evals, instance, mainCallback, retryTimers, awaiting,
                   nextRequestId, sent, delivered, observed, lookups, superseded>>

\* `this.callback = callback`: the callback field after onMessage(h).
InstallBug(callback, h) == IF callback = "none" THEN h ELSE callback
Install(callback, h) == h

\* Client.cleanAIChat in window w: `console.warn(..); return false`, in
\* every context.
CleanAIChatOutcome(w) == "returned false"

\* Client.cleanAIChat.
CleanAIChat(c) ==
    /\ clients[c].st # "none"
    /\ clients[c].cleaned = "no"
    /\ clients' = [clients EXCEPT ![c].cleaned = CleanAIChatOutcome(clients[c].win)]
    /\ UNCHANGED <<forged, evals, instance, subscribers, mainCallback, chan, retryTimers, awaiting,
                   checks, nextRequestId, sent, delivered, observed, lookups,
                   lastEvent, superseded>>

\* Client.onMessage.
ClientOnMessage(c, h) ==
    /\ clients[c].st # "none"
    /\ clients[c].last # h
    /\ clients' = [clients EXCEPT ![c].callback = Install(@, h), ![c].last = h]
    /\ UNCHANGED <<forged, evals, instance, subscribers, mainCallback, chan, retryTimers, awaiting,
                   checks, nextRequestId, sent, delivered, observed, lookups,
                   lastEvent, superseded>>

\* What a sendMessage(to, payload) call of Client c is remembered by: its
\* arguments, and the registry's record for `to` and the Clients' states at
\* the call.
SendRecord(c, to, payload) ==
    [by |-> c, to |-> to, payload |-> payload,
     path |-> IF IsMainApp(clients[c].win) THEN "direct" ELSE "relay",
     owner |-> OwnerOf(to),
     source |-> IF MapHas(subscribers, to) THEN MapGet(subscribers, to).source
                ELSE "none",
     handler |-> IF OwnerOf(to) # NoClient THEN clients[OwnerOf(to)].callback
                 ELSE "none",
     superseded |-> superseded,
     unregistered |-> Unregistering]

\* Client.sendMessage, and for a top-context Client PubSub.sendMessage with
\* the first trySendMessageWithRetry.
ClientSendMessage(c, to, payload) ==
    /\ clients[c].st # "none"
    /\ Len(sent) < MaxSends
    /\ LET n == Len(sent) + 1
           message == IMessage(clients[c].pageId, to, payload, n, c)
       IN /\ sent' = Append(sent, SendRecord(c, to, payload))
          /\ IF IsMainApp(clients[c].win)
             THEN /\ observed' = Notify(observed, message)
                  /\ IF mainCallback = "throws"
                     THEN UNCHANGED <<chan, delivered, retryTimers, lookups>>
                     ELSE /\ chan' = TrySendChan(chan, message)
                          /\ delivered' = TrySendLog(delivered, message)
                          /\ retryTimers' = TrySendTimers(retryTimers, message, 0)
                          /\ lookups' = LookedUp(lookups, n,
                                                 MapHas(subscribers, message.to))
             ELSE /\ chan' = Post(chan, clients[c].win, PostTarget(clients[c].win),
                                  message)
                  /\ UNCHANGED <<observed, delivered, retryTimers, lookups>>
    /\ UNCHANGED <<forged, evals, instance, subscribers, mainCallback, clients, awaiting, checks,
                   nextRequestId, lastEvent, superseded>>

\* The broker's retry timer (setTimeout 1000) fires:
\* trySendMessageWithRetry(message, retryCount + 1).
RetryTimerFires ==
    /\ retryTimers # <<>>
    /\ LET t == Head(retryTimers)
       IN /\ chan' = TrySendChan(chan, t.msg)
          /\ delivered' = TrySendLog(delivered, t.msg)
          /\ retryTimers' = TrySendTimers(Tail(retryTimers), t.msg, t.retryCount)
          /\ lookups' = LookedUp(lookups, t.msg.n, MapHas(subscribers, t.msg.to))
    /\ UNCHANGED <<forged, evals, instance, subscribers, mainCallback, clients, awaiting, checks,
                   nextRequestId, sent, observed, lastEvent, superseded>>

\* PubSub.handleMessage for the message event at the head of the queue from
\* window src to the top window.  Without a PubSub instance the top window
\* has no listener and the event is lost.
PubSubHandleMessage(src) ==
    /\ chan[<<src, "top">>] # <<>>
    /\ LET data == Head(chan[<<src, "top">>])
           rest == Pop(chan, src, "top")
       IN IF ~instance
          THEN /\ chan' = rest
               /\ UNCHANGED <<subscribers, awaiting, delivered, observed, lookups,
                              evals, lastEvent, superseded, retryTimers>>
          ELSE IF data.type = "REGISTER"
          THEN /\ subscribers' = MapSet(subscribers, data.pageId,
                                        Subscriber(data.pageId, src, NoClient, data.by))
               /\ lastEvent' = Registered(data.pageId, data.by, src)
               /\ superseded' = Superseding(data.pageId, data.by)
               /\ chan' = rest
               /\ UNCHANGED <<awaiting, delivered, observed, lookups, evals,
                              retryTimers>>
          ELSE IF data.type = "UNREGISTER"
          THEN /\ subscribers' = MapDelete(subscribers, data.pageId)
               /\ lastEvent' = Unregistered(data.pageId, data.by)
               /\ chan' = rest
               /\ UNCHANGED <<awaiting, delivered, observed, lookups, evals,
                              superseded, retryTimers>>
          ELSE IF data.type = "CLIENT_EXISTS_CHECK"
          THEN /\ chan' = Post(rest, "top", src,
                               ExistsResponseMessage(data.requestId,
                                                     MapHas(subscribers, data.clientId)))
               /\ evals' = [i \in 1..MaxChecks |->
                              IF checks[i].requestId = data.requestId
                              THEN Append(evals[i], MapHas(subscribers, data.clientId))
                              ELSE evals[i]]
               /\ UNCHANGED <<subscribers, awaiting, delivered, observed, lookups,
                              lastEvent, superseded, retryTimers>>
          ELSE IF data.from = "" \/ data.to = ""
          THEN /\ chan' = rest
               /\ UNCHANGED <<subscribers, awaiting, delivered, observed, lookups,
                              evals, lastEvent, superseded, retryTimers>>
          ELSE /\ observed' = Notify(observed, data)
               /\ IF mainCallback = "async"
                  THEN /\ awaiting' = awaiting \cup {Suspend(data)}
                       /\ chan' = rest
                       /\ UNCHANGED <<delivered, lookups, retryTimers>>
                  ELSE IF mainCallback = "throws"
                  THEN /\ chan' = rest
                       /\ UNCHANGED <<awaiting, delivered, lookups, retryTimers>>
                  ELSE /\ chan' = ForwardChan(rest, data)
                       /\ delivered' = ForwardLog(delivered, data)
                       /\ lookups' = LookedUp(lookups, data.n,
                                              MapHas(subscribers, data.to))
                       /\ retryTimers' = ForwardTimers(retryTimers, data)
                       /\ UNCHANGED awaiting
               /\ UNCHANGED <<subscribers, evals, lastEvent, superseded>>
    /\ UNCHANGED <<forged, instance, mainCallback, clients, checks,
                   nextRequestId, sent>>

\* The promise an "async" observer returned settles.  Fulfilled:
\* handleMessage resumes at "Forward to target".  Rejected: the await throws
\* and handleMessage ends there.
ObserverSettles(message, fulfilled) ==
    /\ message \in Suspended
    /\ awaiting' = {IF r.msg = message /\ r.st = "pending"
                    THEN [r EXCEPT !.st = IF fulfilled THEN "fulfilled" ELSE "rejected",
                                   !.went = IF Resumes(fulfilled) THEN Route(message)
                                            ELSE "unrouted"]
                    ELSE r : r \in awaiting}
    /\ IF Resumes(fulfilled)
       THEN /\ chan' = ForwardChan(chan, message)
            /\ delivered' = ForwardLog(delivered, message)
            /\ lookups' = LookedUp(lookups, message.n, MapHas(subscribers, message.to))
            /\ retryTimers' = ForwardTimers(retryTimers, message)
       ELSE UNCHANGED <<chan, delivered, lookups, retryTimers>>
    /\ UNCHANGED <<forged, evals, instance, subscribers, mainCallback, clients, checks,
                   nextRequestId, sent, observed, lastEvent, superseded>>

\* ------------------------------------------------------ existence check
OutcomeBug(exists, retryCount, maxRetries) ==
    IF exists THEN "true"
    ELSE IF retryCount < maxRetries THEN "retry" ELSE "false"
OutcomeRetryFirst(exists, retryCount, maxRetries) ==
    IF retryCount < maxRetries - 1 THEN "retry"
    ELSE IF exists THEN "true" ELSE "false"
\* checkClientExistsWithRetry, both branches:
\* `if (exists) resolve(true); else if (retryCount < maxRetries - 1) setTimeout(..);
\*  else resolve(false)`.
Outcome(exists, retryCount, maxRetries) ==
    IF exists THEN "true"
    ELSE IF retryCount < maxRetries - 1 THEN "retry" ELSE "false"

\* resolve(value): the promise settles with the first value it is resolved
\* with; resolved counts the resolve calls (2 stands for "more than once").
Resolve(chk, value) ==
    [chk EXCEPT !.st = "done",
                !.result = IF chk.resolved = 0 THEN value ELSE @,
                !.resolved = IF @ < 2 THEN @ + 1 ELSE @]

\* The check after an answer (exists) to its attempt: resolve, or set the
\* retry timer.
Answered(chk, exists) ==
    IF Outcome(exists, chk.retryCount, chk.maxRetries) = "retry"
    THEN [chk EXCEPT !.st = "waiting", !.retry = TRUE]
    ELSE Resolve(chk, Outcome(exists, chk.retryCount, chk.maxRetries) = "true")

\* messageHandler's test: `data.type === "CLIENT_EXISTS_RESPONSE" &&
\* data.requestId === requestId`.
CorrelatesBug(chk, data) == data.type = "CLIENT_EXISTS_RESPONSE"
Correlates(chk, data) ==
    data.type = "CLIENT_EXISTS_RESPONSE" /\ data.requestId = chk.requestId

\* messageHandler on a correlated response: removeEventListener,
\* clearTimeout, then the decision.
OnResponseBug(chk, data) == Answered([chk EXCEPT !.listener = FALSE], data.exists)
OnResponse(chk, data) ==
    Answered([chk EXCEPT !.listener = FALSE, !.timeout = FALSE], data.exists)

\* The removeHandlerTimeout callback: removeEventListener, resolve(false).
OnTimeoutBug(chk) ==
    Resolve([chk EXCEPT !.timeout = FALSE, !.timedOut = TRUE], FALSE)
OnTimeout(chk) ==
    Resolve([chk EXCEPT !.listener = FALSE, !.timeout = FALSE, !.timedOut = TRUE],
            FALSE)

\* A nested attempt k once it has added its listener, posted its request
\* with requestId rid and armed its timeout.
ProbeSentBug(chk, k, rid) ==
    [chk EXCEPT !.retryCount = k, !.probes = @ + 1, !.st = "probing",
                !.requestId = rid, !.listener = TRUE, !.retry = FALSE]
ProbeSent(chk, k, rid) ==
    [chk EXCEPT !.retryCount = k, !.probes = @ + 1, !.st = "probing",
                !.requestId = rid, !.listener = TRUE, !.timeout = TRUE,
                !.retry = FALSE]

\* checkClientExistsWithRetry(clientId, k, ..) of check i: a top-context
\* Client asks pubsub.isClientExists at once; a nested Client adds a listener,
\* posts a CLIENT_EXISTS_CHECK with a fresh requestId and arms the timeout.
Attempt(i, chk, k) ==
    IF IsMainApp(clients[chk.c].win)
    THEN /\ checks' = [checks EXCEPT ![i] =
                Answered([chk EXCEPT !.retryCount = k, !.probes = @ + 1,
                                     !.retry = FALSE],
                         MapHas(subscribers, chk.clientId))]
         /\ evals' = [evals EXCEPT ![i] = Append(@, MapHas(subscribers, chk.clientId))]
         /\ UNCHANGED <<chan, nextRequestId>>
    ELSE /\ checks' = [checks EXCEPT ![i] = ProbeSent(chk, k, nextRequestId + 1)]
         /\ nextRequestId' = nextRequestId + 1
         /\ chan' = Post(chan, clients[chk.c].win, PostTarget(clients[chk.c].win),
                         ExistsCheckMessage(chk.clientId, nextRequestId + 1,
                                            clients[chk.c].pageId, chk.c))
         /\ UNCHANGED evals

\* Client.checkClientExists(clientId, maxRetries, retryInterval).
CheckClientExists(i, c, clientId, maxRetries) ==
    /\ checks[i].st = "idle"
    /\ IF i = 1 THEN TRUE ELSE checks[i - 1].st # "idle"
    /\ clients[c].st # "none"
    /\ Attempt(i, [IdleCheck EXCEPT !.c = c, !.clientId = clientId,
                                    !.maxRetries = maxRetries,
                                    !.had0 = MapHas(subscribers, clientId),
                                    !.reg0 = lastEvent[clientId].count], 0)
    /\ UNCHANGED <<forged, instance, subscribers, mainCallback, clients, retryTimers, awaiting,
                   sent, delivered, observed, lookups, lastEvent, superseded>>

\* The retry timer of check i (setTimeout retryInterval) fires.
CheckRetryFires(i) ==
    /\ checks[i].retry
    /\ Attempt(i, checks[i], checks[i].retryCount + 1)
    /\ UNCHANGED <<forged, instance, subscribers, mainCallback, clients, retryTimers, awaiting,
                   sent, delivered, observed, lookups, lastEvent, superseded>>

\* removeHandlerTimeout (setTimeout retryInterval + 1000) of check i fires:
\* no response with its requestId has cleared it.
CheckTimeoutFires(i) ==
    /\ checks[i].timeout
    /\ checks' = [checks EXCEPT ![i] = OnTimeout(checks[i])]
    /\ UNCHANGED <<forged, instance, subscribers, mainCallback, clients, chan, retryTimers,
                   awaiting, nextRequestId, sent, delivered, observed, lookups, evals,
                   lastEvent, superseded>>

\* A message event on a nested window dst, from the queue src -> dst: every
\* listener on the window runs, the Clients' boundHandleMessage and the
\* messageHandler of every probe listening there.
WindowHandleMessage(src, dst) ==
    /\ dst # "top"
    /\ chan[<<src, dst>>] # <<>>
    /\ LET data == Head(chan[<<src, dst>>])
       IN /\ chan' = Pop(chan, src, dst)
          /\ delivered' = DispatchToListeners(delivered, dst, data, 1)
          /\ checks' = [i \in 1..MaxChecks |->
                          IF checks[i].listener /\ clients[checks[i].c].win = dst
                          THEN IF Correlates(checks[i], data)
                               THEN OnResponse(checks[i], data)
                               ELSE [checks[i] EXCEPT !.ignored =
                                        @ \/ data.type = "CLIENT_EXISTS_RESPONSE"]
                          ELSE checks[i]]
    /\ UNCHANGED <<forged, instance, subscribers, mainCallback, clients, retryTimers, awaiting,
                   nextRequestId, sent, observed, lookups, evals, lastEvent,
                   superseded>>

\* Payloads another script posts: the listeners are added without an origin
\* or a shape check, so any frame's postMessage reaches them.  A REGISTER and
\* an UNREGISTER without pageId, an unrecognized type without and with
\* from/to, a message without from, and a response nobody asked for.
Forged ==
    {[Blank EXCEPT !.type = "REGISTER"],
     [Blank EXCEPT !.type = "UNREGISTER"],
     [Blank EXCEPT !.type = "PING"],
     [Blank EXCEPT !.type = "PING", !.from = "B", !.to = "A"],
     [Blank EXCEPT !.to = "A"],
     ExistsResponseMessage(0, TRUE)}

\* A script in window src posts data to window dst.
ForeignPost(src, dst, data) ==
    /\ src # dst
    /\ forged < MaxForged
    /\ forged' = forged + 1
    /\ chan' = Post(chan, src, dst, data)
    /\ UNCHANGED <<instance, subscribers, mainCallback, clients, retryTimers, awaiting,
                   checks, nextRequestId, sent, delivered, observed, lookups, evals,
                   lastEvent, superseded>>

\* ------------------------------------------------------ specifications
\* The ids a Client may be constructed with: the first Client's id is
\* called "A".
IdsOf(c) == IF c = 1 THEN {"A"} ELSE PageIds

\* Messaging between Clients of the top window and of one iframe.
Next ==
    \/ GetInstance
    \/ \E c \in ClientIds, w \in {"top", "w1"} : \E id \in IdsOf(c) : Construct(c, w, id)
    \/ \E c \in ClientIds : Unregister(c)
    \/ \E c \in ClientIds, h \in Handlers : ClientOnMessage(c, h)
    \/ \E c \in ClientIds, to \in PageIds : ClientSendMessage(c, to, PayloadOf(Len(sent) + 1))
    \/ RetryTimerFires
    \/ \E src \in Windows : PubSubHandleMessage(src)
    \/ \E src, dst \in Windows : WindowHandleMessage(src, dst)

Spec == Init /\ [][Next]_vars

\* Registration and unregistration from all three nesting levels.
NextReg ==
    \/ GetInstance
    \/ \E c \in ClientIds, w \in Windows : \E id \in IdsOf(c) : Construct(c, w, id)
    \/ \E c \in ClientIds : Unregister(c)
    \/ \E src \in Windows : PubSubHandleMessage(src)

SpecReg == Init /\ [][NextReg]_vars

\* Registration, unregistration and the cleanup operation.
NextClean ==
    \/ GetInstance
    \/ \E c \in ClientIds, w \in {"top", "w1"} : \E id \in IdsOf(c) : Construct(c, w, id)
    \/ \E c \in ClientIds : Unregister(c)
    \/ \E c \in ClientIds : CleanAIChat(c)
    \/ \E src \in Windows : PubSubHandleMessage(src)

SpecClean == Init /\ [][NextClean]_vars

\* Three-level nesting: the top window, Client 1 in the iframe at depth 1,
\* the later Clients in the iframe at depth 2; every kind of envelope (no
\* handlers installed: what is watched is where the envelopes travel).
NestWindow(c) == IF c = 1 THEN "w1" ELSE "w2"

NextNest ==
    \/ GetInstance
    \/ \E c \in ClientIds : Construct(c, NestWindow(c), "A")
    \/ \E c \in ClientIds : Unregister(c)
    \/ \E c \in ClientIds : ClientSendMessage(c, "A", PayloadOf(Len(sent) + 1))
    \/ \E src \in Windows : PubSubHandleMessage(src)
    \/ \E src, dst \in Windows : WindowHandleMessage(src, dst)
    \/ \E c \in ClientIds : CheckClientExists(1, c, "A", 1)
    \/ CheckTimeoutFires(1)

SpecNest == Init /\ [][NextNest]_vars

\* One existence check, run while Clients register and unregister.
NextCheck ==
    \/ GetInstance
    \/ \E c \in ClientIds, w \in {"top", "w1"} : \E id \in IdsOf(c) : Construct(c, w, id)
    \/ \E c \in ClientIds : Unregister(c)
    \/ \E src \in Windows : PubSubHandleMessage(src)
    \/ \E src, dst \in Windows : WindowHandleMessage(src, dst)
    \/ \E c \in ClientIds, id \in PageIds, k \in 0..MaxAttemptsArg :
          CheckClientExists(1, c, id, k)
    \/ CheckRetryFires(1)
    \/ CheckTimeoutFires(1)

SpecCheck == Init /\ [][NextCheck]_vars

\* The same, with the event loop's guarantees: a timer that stays set fires,
\* a message event that stays queued is dispatched.
SpecCheckFair ==
    /\ SpecCheck
    /\ WF_vars(CheckRetryFires(1))
    /\ WF_vars(CheckTimeoutFires(1))
    /\ \A src \in Windows : WF_vars(PubSubHandleMessage(src))
    /\ \A src, dst \in Windows : WF_vars(WindowHandleMessage(src, dst))

\* Messaging while the main page installs and replaces observers.
NextObs ==
    \/ GetInstance
    \/ \E kind \in ObserverKinds : PubSubOnMessage(kind)
    \/ \E c \in ClientIds, w \in {"top", "w1"} : \E id \in IdsOf(c) : Construct(c, w, id)
    \/ \E c \in ClientIds, to \in PageIds : ClientSendMessage(c, to, PayloadOf(Len(sent) + 1))
    \/ RetryTimerFires
    \/ \E src \in Windows : PubSubHandleMessage(src)
    \/ \E message \in Suspended, fulfilled \in BOOLEAN : ObserverSettles(message, fulfilled)
    \/ \E src, dst \in Windows : WindowHandleMessage(src, dst)

\* Several existence checks at once, started by the Clients of one iframe.
NextConc ==
    \/ GetInstance
    \/ \E c \in ClientIds : \E id \in IdsOf(c) : Construct(c, "w1", id)
    \/ \E c \in ClientIds : Unregister(c)
    \/ \E src \in Windows : PubSubHandleMessage(src)
    \/ \E src, dst \in Windows : WindowHandleMessage(src, dst)
    \/ \E i \in 1..MaxChecks, c \in ClientIds, id \in PageIds, k \in 1..MaxAttemptsArg :
          CheckClientExists(i, c, id, k)
    \/ \E i \in 1..MaxChecks : CheckRetryFires(i)
    \/ \E i \in 1..MaxChecks : CheckTimeoutFires(i)

SpecConc == Init /\ [][NextConc]_vars

SpecObs == Init /\ [][NextObs]_vars

\* Empty ids: Clients constructed with one, messages sent to one, with an
\* observer on the broker.
EdgeIds(c) == IF c = 1 THEN {"A"} ELSE {"", "B"}

NextEdge ==
    \/ PubSubOnMessage("sync")
    \/ \E c \in ClientIds, w \in {"top", "w1"} : \E id \in EdgeIds(c) : Construct(c, w, id)
    \/ \E c \in ClientIds, h \in Handlers : ClientOnMessage(c, h)
    \/ \E c \in ClientIds, to \in AllIds : ClientSendMessage(c, to, PayloadOf(Len(sent) + 1))
    \/ RetryTimerFires
    \/ \E src \in Windows : PubSubHandleMessage(src)
    \/ \E src, dst \in Windows : WindowHandleMessage(src, dst)

SpecEdge == Init /\ [][NextEdge]_vars

\* Messaging while a script in another frame posts payloads of its own to
\* the top window and to the Clients' iframe.
NextForged ==
    \/ GetInstance
    \/ \E c \in ClientIds, w \in {"top", "w1"} : \E id \in IdsOf(c) : Construct(c, w, id)
    \/ \E c \in ClientIds, h \in Handlers : ClientOnMessage(c, h)
    \/ \E c \in ClientIds, to \in PageIds : ClientSendMessage(c, to, PayloadOf(Len(sent) + 1))
    \/ RetryTimerFires
    \/ \E src \in Windows : PubSubHandleMessage(src)
    \/ \E src, dst \in Windows : WindowHandleMessage(src, dst)
    \/ \E dst \in {"top", "w1"}, data \in Forged : ForeignPost("w2", dst, data)

SpecForged == Init /\ [][NextForged]_vars

\* Messaging to Clients whose handlers return, throw or reject.
NextFail ==
    \/ GetInstance
    \/ \E c \in ClientIds, w \in {"top", "w1"} : \E id \in IdsOf(c) : Construct(c, w, id)
    \/ \E c \in ClientIds, h \in Handlers \cup FailingHandlers : ClientOnMessage(c, h)
    \/ \E c \in ClientIds, to \in PageIds : ClientSendMessage(c, to, PayloadOf(Len(sent) + 1))
    \/ RetryTimerFires
    \/ \E src \in Windows : PubSubHandleMessage(src)
    \/ \E src, dst \in Windows : WindowHandleMessage(src, dst)

SpecFail == Init /\ [][NextFail]_vars

\* Messaging under an observer while Clients register late and unregister.
NextRetry ==
    \/ PubSubOnMessage("sync")
    \/ \E c \in ClientIds, w \in {"top", "w1"} : \E id \in IdsOf(c) : Construct(c, w, id)
    \/ \E c \in ClientIds : Unregister(c)
    \/ \E c \in ClientIds, h \in Handlers : ClientOnMessage(c, h)
    \/ \E c \in ClientIds, to \in PageIds : ClientSendMessage(c, to, PayloadOf(Len(sent) + 1))
    \/ RetryTimerFires
    \/ \E src \in Windows : PubSubHandleMessage(src)
    \/ \E src, dst \in Windows : WindowHandleMessage(src, dst)

SpecRetry == Init /\ [][NextRetry]_vars

\* Relayed messaging under observers that return a promise or throw, while
\* Clients register and unregister under one id: Client 1 in an iframe,
\* which sends to that id, Client 2 in the top window or in another iframe.
AwaitWindows(c) == IF c = 1 THEN {"w1"} ELSE {"top", "w2"}

NextAwait ==
    \/ \E kind \in {"async", "throws"} : PubSubOnMessage(kind)
    \/ \E c \in ClientIds : \E w \in AwaitWindows(c) : Construct(c, w, "A")
    \/ \E c \in ClientIds : Unregister(c)
    \/ \E c \in ClientIds, h \in Handlers : ClientOnMessage(c, h)
    \/ ClientSendMessage(1, "A", PayloadOf(Len(sent) + 1))
    \/ \E src \in Windows : PubSubHandleMessage(src)
    \/ \E message \in Suspended, fulfilled \in BOOLEAN : ObserverSettles(message, fulfilled)
    \/ \E src, dst \in Windows : WindowHandleMessage(src, dst)

SpecAwait == Init /\ [][NextAwait]_vars

\* Every operation side by side: a top-context Client and a nested one
\* register, unregister, install handlers, send one message each and run an
\* existence check, under an observer.
FrameWindow(c) == IF c = 1 THEN "top" ELSE "w1"

FrameId(c) == IF c = 1 THEN "A" ELSE "B"

\* The id a Client sends to and asks for: the other Client's.
FramePeer(c) == IF c = 1 THEN "B" ELSE "A"

NextFrame ==
    \/ PubSubOnMessage("sync")
    \/ \E c \in ClientIds : Construct(c, FrameWindow(c), FrameId(c))
    \/ \E c \in ClientIds : Unregister(c)
    \/ \E c \in ClientIds, h \in Handlers : ClientOnMessage(c, h)
    \/ \E c \in ClientIds :
          /\ \A n \in 1..Len(sent) : sent[n].by # c
          /\ ClientSendMessage(c, FramePeer(c), PayloadOf(Len(sent) + 1))
    \/ RetryTimerFires
    \/ \E src \in Windows : PubSubHandleMessage(src)
    \/ \E src, dst \in Windows : WindowHandleMessage(src, dst)
    \/ \E c \in ClientIds : CheckClientExists(1, c, FramePeer(c), MaxAttemptsArg)
    \/ CheckRetryFires(1)
    \/ CheckTimeoutFires(1)

SpecFrame == Init /\ [][NextFrame]_vars

\* Messaging to Clients that install a handler late and replace it.
NextHandler ==
    \/ GetInstance
    \/ \E c \in ClientIds, w \in {"top", "w1"} : \E id \in IdsOf(c) : Construct(c, w, id)
    \/ \E c \in ClientIds, h \in ReplacingHandlers : ClientOnMessage(c, h)
    \/ \E c \in ClientIds, to \in PageIds : ClientSendMessage(c, to, PayloadOf(Len(sent) + 1))
    \/ RetryTimerFires
    \/ \E src \in Windows : PubSubHandleMessage(src)
    \/ \E src, dst \in Windows : WindowHandleMessage(src, dst)

SpecHandler == Init /\ [][NextHandler]_vars


\* ---------------------------------------------------------------- claims
\* The handler invocations made for the n-th sendMessage call.
DeliveriesOf(n) == {k \in 1..Len(delivered) : delivered[k].msg.n = n}

\* The n-th sendMessage call was made by a top-context Client with a
\* non-empty id, to the non-empty id of a top-context Client whose own
\* registration was the registry's record and which had a handler installed.
DirectToRegistered(n) ==
    /\ sent[n].path = "direct"
    /\ sent[n].owner # NoClient
    /\ sent[n].source = "none"
    /\ sent[n].handler # "none"
    /\ clients[sent[n].by].pageId # ""
    /\ sent[n].to # ""

\* C1: when top-context Client B calls sendMessage(A, p) while top-context
\* Client A is registered with a handler installed, A's handler is invoked
\* with exactly {from: B, to: A, payload: p}, and no other Client's handler
\* is invoked for that message.
C1_DirectDelivery ==
    \A n \in 1..Len(sent) :
        DirectToRegistered(n) =>
            /\ Cardinality(DeliveriesOf(n)) = 1
            /\ \A k \in DeliveriesOf(n) :
                  /\ delivered[k].c = sent[n].owner
                  /\ delivered[k].h = sent[n].handler
                  /\ clients[delivered[k].c].pageId = sent[n].to
                  /\ delivered[k].msg.from = clients[sent[n].by].pageId
                  /\ delivered[k].msg.to = sent[n].to
                  /\ delivered[k].msg.payload = sent[n].payload

\* C1's case: a top-context Client sent to another, registered, top-context
\* Client, and a third party exists whose handler stayed silent.
C1_Witness ==
    \E n \in 1..Len(sent) :
        /\ DirectToRegistered(n)
        /\ sent[n].by # sent[n].owner
        /\ clients[sent[n].by].pageId # sent[n].to
        /\ clients[sent[n].by].callback # "none"
        /\ DeliveriesOf(n) # {}

\* C2: once a second Client's registration under an id an earlier Client
\* holds has been processed, no message sent afterwards invokes the
\* superseded Client's handler.
C2_SupersededSilent ==
    \A k \in 1..Len(delivered) :
        delivered[k].c \notin sent[delivered[k].msg.n].superseded

\* Message number n sits in no postMessage queue.
InNoQueue(n) ==
    \A pair \in Windows \X Windows :
        \A k \in 1..Len(chan[pair]) : chan[pair][k].n # n

\* C3: a message sent to a Client's id after that Client called unregister()
\* never invokes that Client's handler, be the Client top-context or nested.
C3_UnregisteredSilent ==
    \A k \in 1..Len(delivered) :
        delivered[k].c \notin sent[delivered[k].msg.n].unregistered

\* C3's case: a nested Client with a handler had called unregister(), its
\* UNREGISTER was not processed yet, so a message sent afterwards to its id
\* was posted to its window, and arrived there.
C3_Witness ==
    \E n \in 1..Len(sent), c \in ClientIds :
        /\ c \in sent[n].unregistered
        /\ sent[n].owner = c
        /\ sent[n].to = clients[c].pageId
        /\ clients[c].win # "top"
        /\ clients[c].callback # "none"
        /\ lookups[n] = "hit"
        /\ InNoQueue(n)

\* The retry timers pending for message number n.
TimersOf(n) == {k \in 1..Len(retryTimers) : retryTimers[k].msg.n = n}

C10_SendOrder ==
    \A n1, n2 \in 1..Len(sent) :
        (n1 < n2 /\ sent[n1].by = sent[n2].by /\ sent[n1].to = sent[n2].to) =>
            \A k1 \in DeliveriesOf(n1), k2 \in DeliveriesOf(n2) : k1 < k2

\* No record for the id check i probes existed when the call was made, and
\* no registration under that id was processed since.
NeverRegistered(i) ==
    /\ ~checks[i].had0
    /\ lastEvent[checks[i].clientId].count = checks[i].reg0

\* C5: a checkClientExists(X, maxAttempts >= 1, ..) call during which X was
\* never registered, and none of whose probes timed out, resolves false,
\* after exactly maxAttempts probes, each of which found no record.
C5_ExhaustedIsFalse ==
    \A i \in 1..MaxChecks :
        (/\ checks[i].st = "done"
         /\ checks[i].maxRetries >= 1
         /\ ~checks[i].timedOut
         /\ NeverRegistered(i)) =>
            /\ checks[i].result = FALSE
            /\ checks[i].probes = checks[i].maxRetries
            /\ Len(evals[i]) = checks[i].maxRetries
            /\ \A j \in 1..Len(evals[i]) : evals[i][j] = FALSE

\* C5's case: a nested caller's check with maxAttempts = MaxAttemptsArg
\* ran to its end, all probes answered, the id never registered.
C5_Witness ==
    \E i \in 1..MaxChecks :
        /\ checks[i].st = "done"
        /\ checks[i].maxRetries = MaxAttemptsArg
        /\ clients[checks[i].c].win # "top"
        /\ ~checks[i].timedOut
        /\ NeverRegistered(i)
        /\ checks[i].probes = MaxAttemptsArg

\* C6 as claimed: when attempt k of a check found no record and attempt k+1
\* found one, the check resolves true at attempt k+1.
C6_FoundResolvesTrue ==
    \A i \in 1..MaxChecks :
        \A j \in 2..Len(evals[i]) :
            (checks[i].st = "done" /\ ~evals[i][j - 1] /\ evals[i][j]) =>
                checks[i].result = TRUE /\ checks[i].probes = j

\* C6 as amended: an attempt that found a record is the last attempt of its
\* check (no later probe, no retry timer), and the check resolves true with
\* it unless that attempt's timeout fired before the response arrived, in
\* which case it resolves false; a check never resolves true before an
\* attempt found a record.
C6_FoundEndsCheck ==
    \A i \in 1..MaxChecks :
        /\ \A j \in 1..Len(evals[i]) :
              evals[i][j] =>
                  /\ j = Len(evals[i])
                  /\ checks[i].probes = j
                  /\ checks[i].st \in {"probing", "done"}
                  /\ checks[i].st = "done" => checks[i].result = ~checks[i].timedOut
        /\ (checks[i].st = "done" /\ checks[i].result) =>
              Len(evals[i]) >= 1 /\ evals[i][Len(evals[i])]

\* C6's case: a nested caller's first attempt found no record, the id was
\* registered before the second, and the check resolved true there.
C6_Witness ==
    \E i \in 1..MaxChecks :
        /\ checks[i].st = "done"
        /\ checks[i].result
        /\ clients[checks[i].c].win # "top"
        /\ evals[i] = <<FALSE, TRUE>>
        /\ checks[i].probes = 2

\* C8: the registry holds at most one record per id; a record for an id is
\* present exactly when the last registration event processed for that id
\* was a registration, and it carries the delivery target that registration
\* supplied: the registering Client's callback, or the window its REGISTER
\* came from.
C8_RegistryMatchesLastEvent ==
    \A id \in PageIds :
        /\ Cardinality({e \in subscribers : e.pageId = id}) <= 1
        /\ MapHas(subscribers, id) <=> lastEvent[id].kind = "reg"
        /\ MapHas(subscribers, id) =>
              /\ MapGet(subscribers, id).owner = lastEvent[id].owner
              /\ MapGet(subscribers, id).source = lastEvent[id].source
              /\ clients[lastEvent[id].owner].pageId = id
              /\ IF IsMainApp(clients[lastEvent[id].owner].win)
                 THEN /\ MapGet(subscribers, id).source = "none"
                      /\ MapGet(subscribers, id).callback = lastEvent[id].owner
                 ELSE MapGet(subscribers, id).source = clients[lastEvent[id].owner].win

\* C8's case: a Client registered under an id and unregistered, then a
\* nested Client registered under the same id, and all of it was processed.
C8_Witness ==
    \E id \in PageIds, c \in ClientIds :
        /\ MapHas(subscribers, id)
        /\ MapGet(subscribers, id).source # "none"
        /\ lastEvent[id].count >= 2
        /\ clients[c].st = "unreg" /\ clients[c].pageId = id
        /\ \A pair \in Windows \X Windows : chan[pair] = <<>>

\* Top-context Client c and nested Client d were constructed with the same
\* id, they are the only Clients with it, neither has unregistered, and the
\* broker has processed both registrations.
Raced(c, d) ==
    /\ clients[c].st = "live" /\ clients[d].st = "live"
    /\ IsMainApp(clients[c].win) /\ ~IsMainApp(clients[d].win)
    /\ clients[c].pageId = clients[d].pageId
    /\ \A o \in ClientIds \ {c, d} :
          clients[o].st = "none" \/ clients[o].pageId # clients[c].pageId
    /\ lastEvent[clients[c].pageId].count = 2

\* C9: when a direct registration and a relayed REGISTER race for one id,
\* the record left is that of the registration the broker processed last,
\* and the other Client is the superseded one, whichever was constructed
\* last.
C9_LastProcessedWins ==
    \A c, d \in ClientIds :
        Raced(c, d) =>
            /\ MapHas(subscribers, clients[c].pageId)
            /\ LET r == MapGet(subscribers, clients[c].pageId)
               IN /\ r.owner \in {c, d}
                  /\ r.owner = lastEvent[clients[c].pageId].owner
                  /\ superseded \cap {c, d} = {c, d} \ {r.owner}
                  /\ r.owner = c => r.source = "none" /\ r.callback = c
                  /\ r.owner = d => r.source = clients[d].win

\* C9's case: the nested Client was constructed first, the top-context one
\* last, and the nested Client's REGISTER was processed last and won.
C9_Witness ==
    \E c, d \in ClientIds :
        /\ Raced(c, d)
        /\ d < c
        /\ OwnerOf(clients[c].pageId) = d
        /\ c \in superseded

\* C7: a nested Client, at depth 1 or 2, posts every envelope to the top
\* window: no queue between nested windows ever holds anything, what a
\* nested window sends up was posted by a Client of that window, and a
\* relayed registration's record points at the registering Client's own
\* window.
C7_StraightToTop ==
    /\ \A src, dst \in Windows \ {"top"} : chan[<<src, dst>>] = <<>>
    /\ \A src \in Windows \ {"top"} :
          \A k \in 1..Len(chan[<<src, "top">>]) :
              clients[chan[<<src, "top">>][k].by].win = src
    /\ \A e \in subscribers : e.source # "none" => e.source = clients[e.owner].win

\* C7's case: a depth-2 Client registered, had an existence check answered,
\* had a message routed and got its unregistration processed.
C7_Witness ==
    \E c \in ClientIds, n \in 1..Len(sent) :
        /\ clients[c].win = "w2"
        /\ lastEvent[clients[c].pageId] =
               [kind |-> "unreg", owner |-> c, source |-> "none", count |-> 1]
        /\ sent[n].by = c /\ lookups[n] = "hit"
        /\ checks[1].c = c /\ checks[1].st = "done" /\ ~checks[1].timedOut

\* The broker takes up message number n in this step: a top-context Client
\* calls sendMessage (direct path), or the broker's listener handles the
\* transport event of a well-formed message (transport path).
RoutingBegins(n) ==
    \/ /\ Len(sent') = n /\ Len(sent) = n - 1
       /\ sent'[n].path = "direct"
    \/ \E src \in Windows :
          /\ instance
          /\ chan[<<src, "top">>] # <<>>
          /\ Head(chan[<<src, "top">>]).n = n
          /\ Head(chan[<<src, "top">>]).type = ""
          /\ Head(chan[<<src, "top">>]).from # ""
          /\ Head(chan[<<src, "top">>]).to # ""
          /\ chan'[<<src, "top">>] = Tail(chan[<<src, "top">>])

\* C11: in the step in which the broker takes up a message, no registry
\* lookup and no handler invocation has been made for it yet, and if an
\* observer is installed the observer installed last (and no other) is
\* invoked with that message, whether or not the target is registered; in
\* no other step is an observer invoked.
C11_ObserverFirst ==
    [][/\ \A n \in 1..MaxSends :
             RoutingBegins(n) =>
                 /\ lookups[n] = "none"
                 /\ DeliveriesOf(n) = {}
                 /\ observed' = IF mainCallback # "none"
                                THEN Append(observed, [n |-> n, obs |-> mainCallback,
                                                       looked |-> "none"])
                                ELSE observed
       /\ (~ \E n \in 1..MaxSends : RoutingBegins(n)) => observed' = observed]_vars

\* C11's case: a relayed message to an id without a record was passed to an
\* "async" observer and looked up only afterwards, and another message went
\* to a different observer, installed in its place.
C11_Witness ==
    \E k, j \in 1..Len(observed) :
        /\ sent[observed[k].n].path = "relay"
        /\ observed[k].obs = "async"
        /\ lookups[observed[k].n] = "miss"
        /\ observed[j].obs # "async"
        /\ observed[j].n # observed[k].n

\* C12: a handler invocation that fails, by a synchronous throw or by a
\* returned promise that rejects, is caught at the Client's delivery
\* boundary.
C12_FailureCaught ==
    \A k \in 1..Len(delivered) :
        delivered[k].h \in FailingHandlers => delivered[k].outcome = "caught"

\* C13: a Client invokes its handler only for a payload with a non-empty
\* from, a non-empty to, and to equal to the Client's own id.
C13_OnlyOwnMessages ==
    \A k \in 1..Len(delivered) :
        /\ delivered[k].msg.from # ""
        /\ delivered[k].msg.to # ""
        /\ delivered[k].msg.to = clients[delivered[k].c].pageId

\* C13's case: two Clients with handlers and different ids listen on one
\* iframe window; a message for one of them and the payload of a foreign
\* script have arrived, and the other Client's handler stayed silent.
C13_Witness ==
    \E c, d \in ClientIds :
        /\ clients[c].win = "w1" /\ clients[d].win = "w1"
        /\ clients[c].listening /\ clients[d].listening
        /\ clients[c].callback # "none" /\ clients[d].callback # "none"
        /\ clients[c].pageId # clients[d].pageId
        /\ forged = MaxForged
        /\ \A pair \in Windows \X Windows : chan[pair] = <<>>
        /\ \E k \in 1..Len(delivered) : delivered[k].c = d /\ delivered[k].msg.n > 0
        /\ \A k \in 1..Len(delivered) : delivered[k].c # c

\* C14: a message whose from or to is empty (sent to an empty id, or by a
\* Client constructed with an empty id) is dropped by the broker on either
\* path: the observer is not notified, no registry lookup is made and no
\* delivery target invoked, and nothing is queued for a retry.
C14_MalformedDropped ==
    \A n \in 1..Len(sent) :
        (sent[n].to = "" \/ clients[sent[n].by].pageId = "") =>
            /\ \A k \in 1..Len(observed) : observed[k].n # n
            /\ lookups[n] = "none"
            /\ TimersOf(n) = {}
            /\ DeliveriesOf(n) = {}

\* A transport payload the broker should ignore: a REGISTER or UNREGISTER
\* without id, an unrecognized type, or a message lacking from or to.
Malformed(data) ==
    \/ data.type \in {"REGISTER", "UNREGISTER"} /\ data.pageId = ""
    \/ data.type \notin {"", "REGISTER", "UNREGISTER", "CLIENT_EXISTS_CHECK"}
    \/ data.type = "" /\ (data.from = "" \/ data.to = "")

\* C15: the step in which the broker handles a malformed transport payload
\* leaves the registry unchanged, invokes no observer and no delivery
\* target, sets no timer and posts nothing.
C15_MalformedIgnored ==
    [][\A src \in Windows :
          (/\ instance
           /\ chan[<<src, "top">>] # <<>>
           /\ Malformed(Head(chan[<<src, "top">>]))
           /\ chan'[<<src, "top">>] = Tail(chan[<<src, "top">>])) =>
              /\ subscribers' = subscribers
              /\ observed' = observed
              /\ delivered' = delivered
              /\ lookups' = lookups
              /\ retryTimers' = retryTimers
              /\ \A pair \in (Windows \X Windows) \ {<<src, "top">>} :
                    chan'[pair] = chan[pair]]_vars

\* C16: every checkClientExists call, whatever its maxAttempts and whatever
\* happens meanwhile, eventually resolves; resolve is called exactly once,
\* with a boolean, and a resolved check stays as it is.
C16_EventuallyResolved ==
    /\ \A i \in 1..MaxChecks : (checks[i].st # "idle") ~> (checks[i].st = "done")
    /\ [](\A i \in 1..MaxChecks :
             /\ checks[i].resolved <= 1
             /\ checks[i].result \in BOOLEAN
             /\ (checks[i].st = "done") <=> (checks[i].resolved = 1))

\* C16's case: a nested caller's check with maxAttempts = 0 that the top
\* window never answered (no broker there) has resolved.
C16_Witness ==
    \E i \in 1..MaxChecks :
        /\ checks[i].st = "done"
        /\ checks[i].maxRetries = 0
        /\ clients[checks[i].c].win # "top"
        /\ ~instance
        /\ evals[i] = <<>>

\* C17 as claimed: a check never issues more probes than its maxAttempts.
C17_AtMostMaxAttempts ==
    \A i \in 1..MaxChecks : checks[i].probes <= checks[i].maxRetries

\* C17 as amended: a check issues its first probe whatever maxAttempts is,
\* and at most maxAttempts probes when maxAttempts >= 1 (attempt numbers
\* 0, 1, ..); a retry is only pending after a not-found answer to attempt
\* k < maxAttempts - 1; a probe that found the id is the last one; every
\* nested probe takes a requestId no earlier probe had.
C17_ProbesBounded ==
    /\ [](\A i \in 1..MaxChecks :
             checks[i].st # "idle" =>
                 /\ checks[i].probes = checks[i].retryCount + 1
                 /\ checks[i].probes <=
                        IF checks[i].maxRetries < 1 THEN 1 ELSE checks[i].maxRetries
                 /\ checks[i].retry =>
                        /\ checks[i].retryCount < checks[i].maxRetries - 1
                        /\ Len(evals[i]) = checks[i].probes
                        /\ ~evals[i][Len(evals[i])]
                 /\ \A j \in 1..Len(evals[i]) :
                        evals[i][j] => (j = checks[i].probes /\ ~checks[i].retry))
    /\ [][\A i \in 1..MaxChecks :
              (checks'[i].probes # checks[i].probes /\ checks'[i].listener) =>
                  /\ checks'[i].probes = checks[i].probes + 1
                  /\ checks'[i].requestId > nextRequestId
                  /\ nextRequestId' = checks'[i].requestId]_vars

\* C17's case: a check with maxAttempts = MaxAttemptsArg of a nested caller
\* used all its attempts, and one with maxAttempts = 0 made its one probe.
C17_Witness ==
    \E i \in 1..MaxChecks :
        /\ checks[i].st = "done"
        /\ clients[checks[i].c].win # "top"
        /\ ~checks[i].timedOut
        /\ \/ checks[i].maxRetries = MaxAttemptsArg /\ checks[i].probes = MaxAttemptsArg
           \/ checks[i].maxRetries = 0 /\ checks[i].probes = 1

\* C18: a nested attempt's listener and timeout are installed exactly while
\* the attempt waits for its response; a correlated response removes both;
\* a timeout that fires removes the listener and resolves the check false;
\* in a terminal state no listener and no timer of the check remains, and
\* nothing that happens later (a late response included) changes the check.
C18_TimeoutEndsCheck ==
    /\ [](\A i \in 1..MaxChecks :
             /\ checks[i].listener <=> checks[i].timeout
             /\ checks[i].listener <=> (checks[i].st = "probing")
             /\ checks[i].retry <=> (checks[i].st = "waiting")
             /\ checks[i].timedOut =>
                    (checks[i].st = "done" /\ checks[i].result = FALSE)
             /\ checks[i].st = "done" =>
                    ~checks[i].listener /\ ~checks[i].timeout /\ ~checks[i].retry)
    /\ [][\A i \in 1..MaxChecks :
              checks[i].st = "done" => checks'[i] = checks[i]]_vars

\* C18's case: a nested attempt timed out although the broker answered it,
\* and the answer (found) arrived at the caller's window afterwards.
C18_Witness ==
    \E i \in 1..MaxChecks :
        /\ checks[i].timedOut
        /\ clients[checks[i].c].win # "top"
        /\ Len(evals[i]) = checks[i].probes
        /\ evals[i][Len(evals[i])]
        /\ \A pair \in Windows \X Windows : chan[pair] = <<>>

\* C20: the step in which the broker handles a CLIENT_EXISTS_CHECK posts
\* exactly one payload, a CLIENT_EXISTS_RESPONSE to the window the request
\* came from, with the request's requestId and exists telling whether the
\* registry holds a record for clientId in that state, and changes nothing
\* in the registry; a top-context caller's isClientExists gets the same
\* membership.
C20_ExistsAnswered ==
    [][/\ \A src \in Windows :
             (/\ instance
              /\ chan[<<src, "top">>] # <<>>
              /\ Head(chan[<<src, "top">>]).type = "CLIENT_EXISTS_CHECK"
              /\ chan'[<<src, "top">>] = Tail(chan[<<src, "top">>])) =>
                 /\ chan'[<<"top", src>>] =
                        Append(chan[<<"top", src>>],
                               [Blank EXCEPT
                                  !.type = "CLIENT_EXISTS_RESPONSE",
                                  !.requestId = Head(chan[<<src, "top">>]).requestId,
                                  !.exists =
                                     \E e \in subscribers :
                                        e.pageId = Head(chan[<<src, "top">>]).clientId])
                 /\ \A pair \in (Windows \X Windows) \ {<<src, "top">>, <<"top", src>>} :
                        chan'[pair] = chan[pair]
                 /\ subscribers' = subscribers
       /\ \A i \in 1..MaxChecks :
             (Len(evals'[i]) > Len(evals[i]) /\ clients[checks'[i].c].win = "top") =>
                 evals'[i][Len(evals'[i])] =
                    (\E e \in subscribers : e.pageId = checks'[i].clientId)]_vars

\* C20's case: a nested caller's request for a registered id was answered:
\* the response, with that request's id and exists = TRUE, is on its way to
\* the caller's window.
C20_Witness ==
    \E i \in 1..MaxChecks, w \in Windows \ {"top"} :
        /\ checks[i].st = "probing"
        /\ clients[checks[i].c].win = w
        /\ chan[<<"top", w>>] # <<>>
        /\ Head(chan[<<"top", w>>]).type = "CLIENT_EXISTS_RESPONSE"
        /\ Head(chan[<<"top", w>>]).requestId = checks[i].requestId
        /\ Head(chan[<<"top", w>>]).exists
        /\ MapHas(subscribers, checks[i].clientId)

\* C19: with several probes in flight in one nested context, a check moves
\* on only by the broker's answer to its own request: while it waits, at
\* most its current probe has been answered; once it has decided without a
\* timeout, every one of its probes has been answered and its decision is
\* the one its own last answer calls for.
C19_OwnResponseOnly ==
    \A i \in 1..MaxChecks :
        checks[i].st # "idle" =>
            /\ Len(evals[i]) \in {checks[i].probes - 1, checks[i].probes}
            /\ (checks[i].st \in {"waiting", "done"} /\ ~checks[i].timedOut) =>
                  /\ Len(evals[i]) = checks[i].probes
                  /\ checks[i].st = "waiting" => ~evals[i][Len(evals[i])]
                  /\ checks[i].st = "done" =>
                        checks[i].result = evals[i][Len(evals[i])]
            /\ (checks[i].st = "probing") <=> (checks[i].listener /\ checks[i].timeout)

\* C19's case: two checks of one iframe window ended with different results,
\* and the listener of one of them had run on the other's response.
C19_Witness ==
    \E i, j \in 1..MaxChecks :
        /\ checks[i].st = "done" /\ checks[j].st = "done"
        /\ ~checks[i].timedOut /\ ~checks[j].timedOut
        /\ clients[checks[i].c].win = clients[checks[j].c].win
        /\ checks[i].ignored
        /\ checks[i].result # checks[j].result

\* The handler invocations of Client c made in this step.
NewDeliveries(c) ==
    {k \in (Len(delivered) + 1)..Len(delivered') : delivered'[k].c = c}

\* C21: a step invokes at most one handler of a Client, and it is the one
\* the last onMessage call named; a message event for a listening nested
\* Client's own id invokes it exactly once; before any onMessage call
\* nothing is invoked; an onMessage call itself invokes nothing (no envelope
\* was kept for it).
C21_SingleHandler ==
    [][\A c \in ClientIds :
          /\ Cardinality(NewDeliveries(c)) <= 1
          /\ \A k \in NewDeliveries(c) :
                /\ clients[c].last # "none"
                /\ delivered'[k].h = clients[c].last
          /\ clients'[c].last # clients[c].last => delivered' = delivered
          /\ \A src \in Windows :
                (/\ clients[c].listening
                 /\ clients[c].last # "none"
                 /\ chan[<<src, clients[c].win>>] # <<>>
                 /\ chan'[<<src, clients[c].win>>] = Tail(chan[<<src, clients[c].win>>])
                 /\ Head(chan[<<src, clients[c].win>>]).from # ""
                 /\ Head(chan[<<src, clients[c].win>>]).to = clients[c].pageId) =>
                    Cardinality(NewDeliveries(c)) = 1]_vars

\* C21's case: a Client got one message through its first handler and,
\* after replacing the handler, a later message through the second.
C21_Witness ==
    \E k1, k2 \in 1..Len(delivered) :
        /\ k1 < k2
        /\ delivered[k1].c = delivered[k2].c
        /\ delivered[k1].h = "h1" /\ delivered[k2].h = "h2"
        /\ clients[delivered[k1].c].last = "h2"

\* C22: the step in which a Client calls unregister() changes none of its
\* checks (no timer cleared, no listener of a probe removed); a check whose
\* caller has unregistered still resolves, and when it resolves false
\* without a timeout it has used all its attempts.
C22_UnregisterKeepsLoop ==
    /\ [][\A c \in ClientIds :
              (clients[c].st = "live" /\ clients'[c].st = "unreg") =>
                  checks' = checks]_vars
    /\ \A i \in 1..MaxChecks :
          (checks[i].st \in {"probing", "waiting"}
               /\ clients[checks[i].c].st = "unreg") ~> (checks[i].st = "done")
    /\ [](\A i \in 1..MaxChecks :
             (checks[i].st = "done" /\ ~checks[i].timedOut /\ ~checks[i].result) =>
                 /\ checks[i].retryCount >= checks[i].maxRetries - 1
                 /\ Len(evals[i]) = checks[i].probes
                 /\ \A j \in 1..Len(evals[i]) : ~evals[i][j])

\* C22's case: a nested Client unregistered while the retry timer of its
\* check was pending; the timer fired, the second probe was issued and
\* answered, and the check resolved.
C22_Witness ==
    \E i \in 1..MaxChecks :
        /\ checks[i].st = "done"
        /\ clients[checks[i].c].midCheck
        /\ clients[checks[i].c].win # "top"
        /\ ~checks[i].timedOut
        /\ checks[i].probes = 2
        /\ Len(evals[i]) = 2

\* C23: a cleanAIChat call on a Client in a nested context ends with an
\* explicit error, not with a normal return.
C23_NestedCleanFails ==
    \A c \in ClientIds :
        (clients[c].cleaned # "no" /\ ~IsMainApp(clients[c].win)) =>
            clients[c].cleaned = "threw"

\* The registry's record for id changes in this step.
RecordChanges(id) ==
    {e \in subscribers' : e.pageId = id} # {e \in subscribers : e.pageId = id}

\* C24: there is one broker, in the top window: a top-context Client holds
\* the top window's PubSub, which exists from then on; a nested Client holds
\* none; without an instance there is no record; the instance, once
\* created, stays, and its registry is never replaced: a step changes the
\* record of at most one id.
C24_Singleton ==
    /\ [](/\ \A c \in ClientIds :
                clients[c].st # "none" =>
                    /\ clients[c].pubsub =
                           IF clients[c].win = "top" THEN "top" ELSE "none"
                    /\ (clients[c].pubsub # "none" => instance)
           /\ (~instance => subscribers = {}))
    /\ [][/\ (instance => instance')
           /\ \A id1, id2 \in PageIds :
                 (RecordChanges(id1) /\ RecordChanges(id2)) => id1 = id2]_vars

\* C24's case: a top-context Client and a nested Client are both in the
\* registry of the one broker, the top-context Client constructed last, and
\* a message of the nested Client has been routed by it.
C24_Witness ==
    \E c, d \in ClientIds, n \in 1..Len(sent) :
        /\ d < c
        /\ clients[c].win = "top" /\ clients[d].win # "top"
        /\ OwnerOf(clients[c].pageId) = c
        /\ OwnerOf(clients[d].pageId) = d
        /\ sent[n].by = d
        /\ lookups[n] = "hit"

\* A retry timer of the broker fires in this step.
RetryStep == retryTimers # <<>> /\ retryTimers' # retryTimers /\ sent' = sent

\* A top-context Client calls sendMessage in this step, to an id without a
\* record.
DirectMissStep ==
    /\ Len(sent') = Len(sent) + 1
    /\ sent'[Len(sent')].path = "direct"
    /\ sent'[Len(sent')].owner = NoClient

ObservationsOf(n) == {k \in 1..Len(observed) : observed[k].n = n}

C27_RelayMissDropped ==
    /\ [](\A n \in 1..Len(sent) :
             (sent[n].path = "relay" /\ lookups[n] = "miss") =>
                 /\ \A k \in 1..Len(delivered) : delivered[k].msg.n # n
                 /\ \A k \in 1..Len(retryTimers) : retryTimers[k].msg.n # n
                 /\ \A pair \in Windows \X Windows :
                       \A k \in 1..Len(chan[pair]) : chan[pair][k].n # n)
    /\ [][(\E src \in Windows \ {"top"} :
               chan'[<<src, "top">>] # chan[<<src, "top">>]) =>
              retryTimers' = retryTimers]_vars

\* C27's case: a relayed message found no record; afterwards a Client
\* registered under its target id and installed a handler, and the sender's
\* next message to that id reached the handler.
C27_Witness ==
    \E n, m \in 1..Len(sent) :
        /\ n < m
        /\ sent[n].path = "relay"
        /\ sent[n].by = sent[m].by
        /\ sent[n].to = sent[m].to
        /\ lookups[n] = "miss"
        /\ lookups[m] = "hit"
        /\ DeliveriesOf(m) # {}

\* The registry holds no record for id after this step, and the records of
\* the other ids are as before.
RemovesRecord(id) ==
    /\ \A e \in subscribers' : e.pageId # id
    /\ {e \in subscribers' : e.pageId # id} = {e \in subscribers : e.pageId # id}

\* C28: the step in which a top-context Client with id X calls unregister(),
\* or in which the broker handles an UNREGISTER for X, leaves no record
\* under X, whichever Client the record belonged to, and touches no other
\* record.
C28_UnregisterById ==
    [][/\ \A c \in ClientIds :
             (/\ clients[c].st = "live" /\ clients'[c].st = "unreg"
              /\ clients[c].win = "top") => RemovesRecord(clients[c].pageId)
       /\ \A src \in Windows :
             (/\ instance
              /\ chan[<<src, "top">>] # <<>>
              /\ Head(chan[<<src, "top">>]).type = "UNREGISTER"
              /\ chan'[<<src, "top">>] = Tail(chan[<<src, "top">>])) =>
                 RemovesRecord(Head(chan[<<src, "top">>]).pageId)]_vars

\* C28's case: a Client superseded by a newer Client with the same id
\* unregistered; the newer Client is live with a handler, the registry has
\* no record for the id, and a message sent to it afterwards found none.
C28_Witness ==
    \E c, d \in ClientIds, n \in 1..Len(sent) :
        /\ c # d
        /\ clients[c].pageId = clients[d].pageId
        /\ clients[c].st = "unreg" /\ clients[d].st = "live"
        /\ clients[d].callback # "none"
        /\ c \in sent[n].superseded /\ c \in sent[n].unregistered
        /\ sent[n].to = clients[d].pageId
        /\ lastEvent[clients[d].pageId].kind = "unreg"
        /\ lastEvent[clients[d].pageId].owner = c
        /\ lastEvent[clients[d].pageId].count = 2
        /\ sent[n].owner = NoClient
        /\ lookups[n] = "miss"

\* C29: no message invokes the handler of one Client twice; and as long as
\* no Client was constructed with an id a live Client had, no message
\* invokes more than one handler at all.
C29_AtMostOnce ==
    \A n \in 1..Len(sent) :
        /\ \A k1, k2 \in DeliveriesOf(n) :
              delivered[k1].c = delivered[k2].c => k1 = k2
        /\ (\A c \in ClientIds : ~clients[c].dup) => Cardinality(DeliveriesOf(n)) <= 1

\* C29's case: a top-context Client unregistered and sent a message to its
\* own former id; a new Client took the id, and a retry handed the message to
\* its handler, once.
C29_Witness ==
    \E n \in 1..Len(sent), d \in ClientIds :
        /\ sent[n].path = "direct"
        /\ lookups[n] = "miss"
        /\ clients[sent[n].by].st = "unreg"
        /\ clients[sent[n].by].pageId = sent[n].to
        /\ d # sent[n].by
        /\ ~clients[d].dup
        /\ Cardinality(DeliveriesOf(n)) = 1
        /\ \A k \in DeliveriesOf(n) : delivered[k].c = d

\* C30: a check that resolved true had a probe for which the registry held
\* a record of the id when the registry was asked (by the broker handling
\* the request, or by isClientExists); a check for an id without a record at
\* the call and without a registration since does not resolve true.
C30_TrueOnlyIfFound ==
    /\ [](\A i \in 1..MaxChecks :
             (checks[i].st = "done" /\ checks[i].result) =>
                 /\ \E j \in 1..Len(evals[i]) : evals[i][j]
                 /\ checks[i].had0 \/ lastEvent[checks[i].clientId].count > checks[i].reg0)
    /\ [][\A i \in 1..MaxChecks :
              Len(evals'[i]) > Len(evals[i]) =>
                  /\ Len(evals'[i]) = Len(evals[i]) + 1
                  /\ evals'[i][Len(evals'[i])] =
                        (\E e \in subscribers : e.pageId = checks'[i].clientId)]_vars

\* C30's case: a nested caller's check resolved true, and by then the id
\* had been unregistered: the registry holds no record for it.
C30_Witness ==
    \E i \in 1..MaxChecks :
        /\ checks[i].st = "done"
        /\ checks[i].result
        /\ clients[checks[i].c].win # "top"
        /\ ~MapHas(subscribers, checks[i].clientId)
        /\ lastEvent[checks[i].clientId].kind = "unreg"

\* A registration or an unregistration takes effect in this step: a
\* top-context Client is constructed or calls unregister(), or the broker
\* handles a REGISTER or an UNREGISTER.
RegistrationStep ==
    \/ \E c \in ClientIds :
          /\ clients[c].st # clients'[c].st
          /\ clients'[c].win = "top"
    \/ \E src \in Windows :
          /\ instance
          /\ chan[<<src, "top">>] # <<>>
          /\ Head(chan[<<src, "top">>]).type \in {"REGISTER", "UNREGISTER"}
          /\ chan'[<<src, "top">>] = Tail(chan[<<src, "top">>])

\* C31: a step that is not a registration or an unregistration taking
\* effect leaves the set of registry records as it is: sending, delivering,
\* retrying and dropping messages, answering existence checks, the checks'
\* timers, installing an observer or a handler.
C31_OnlyRegistrationChangesRegistry ==
    [][subscribers' # subscribers => RegistrationStep]_vars

\* C31's case: both Clients registered once and never unregistered; an
\* observer was installed and invoked, a handler was invoked, a message
\* missed its target, and an existence check ran all its attempts; the
\* registry holds exactly the two records.
C31_Witness ==
    /\ subscribers = {Subscriber("A", "none", 1, 1), Subscriber("B", "w1", NoClient, 2)}
    /\ lastEvent["A"].count = 1 /\ lastEvent["B"].count = 1
    /\ mainCallback # "none"
    /\ observed # <<>>
    /\ delivered # <<>>
    /\ \E n \in 1..Len(sent) : lookups[n] = "miss"
    /\ checks[1].st = "done" /\ checks[1].probes = MaxAttemptsArg

\* The broker's first registry lookup for relayed message n is made in this
\* step.
RelayLookup(n) ==
    /\ sent[n].path = "relay"
    /\ lookups[n] = "none"
    /\ lookups'[n] # "none"

\* Message n has gone nowhere from the broker: no handler was invoked with
\* it, no queue out of the top window holds it, no retry timer carries it.
Unrouted(n) ==
    /\ DeliveriesOf(n) = {}
    /\ \A dst \in Windows : \A k \in 1..Len(chan[<<"top", dst>>]) :
          chan[<<"top", dst>>][k].n # n
    /\ \A k \in 1..Len(retryTimers) : retryTimers[k].msg.n # n

\* The queues out of the top window other than the one to window w are as
\* they were.
OtherQueuesKept(w) ==
    \A dst \in Windows \ {w} : chan'[<<"top", dst>>] = chan[<<"top", dst>>]

\* In this step message n went where the registry, as it is now, sends its
\* target id: nowhere without a record, to the handler of a top-context
\* record's Client, into the queue to a nested record's window.
RoutedByRegistryNow(n) ==
    LET id == sent[n].to
    IN IF ~MapHas(subscribers', id)
       THEN /\ lookups'[n] = "miss"
            /\ delivered' = delivered
            /\ OtherQueuesKept("none")
       ELSE IF MapGet(subscribers', id).source = "none"
       THEN /\ lookups'[n] = "hit"
            /\ OtherQueuesKept("none")
            /\ \/ /\ clients[MapGet(subscribers', id).callback].callback = "none"
                  /\ delivered' = delivered
               \/ /\ clients[MapGet(subscribers', id).callback].callback # "none"
                  /\ Len(delivered') = Len(delivered) + 1
                  /\ SubSeq(delivered', 1, Len(delivered)) = delivered
                  /\ delivered'[Len(delivered')].msg.n = n
                  /\ delivered'[Len(delivered')].c = MapGet(subscribers', id).callback
       ELSE /\ lookups'[n] = "hit"
            /\ delivered' = delivered
            /\ OtherQueuesKept(MapGet(subscribers', id).source)
            /\ LET q == <<"top", MapGet(subscribers', id).source>>
               IN /\ Len(chan'[q]) = Len(chan[q]) + 1
                  /\ SubSeq(chan'[q], 1, Len(chan[q])) = chan[q]
                  /\ chan'[q][Len(chan'[q])].n = n

\* C32: on the transport path the registry is looked up only after the
\* observer's promise has settled, and the message goes where the registry
\* sends it at that moment, whatever the registry held when the message was
\* taken up; while the promise is pending the message is looked up and routed
\* nowhere, and a message whose observer threw or whose promise was rejected
\* is never looked up and never routed.
C32_RoutedAfterObserver ==
    /\ [](\A r \in awaiting :
             /\ r.st \in {"pending", "rejected"} =>
                    (lookups[r.msg.n] = "none" /\ Unrouted(r.msg.n))
             /\ r.st = "rejected" => r.went = "unrouted"
             /\ r.st = "fulfilled" =>
                    (lookups[r.msg.n] = IF r.went = "dropped" THEN "miss" ELSE "hit"))
    /\ [](\A k \in 1..Len(observed) :
             (/\ observed[k].obs = "throws"
              /\ observed[k].n \in 1..Len(sent)
              /\ sent[observed[k].n].path = "relay") =>
                 (lookups[observed[k].n] = "none" /\ Unrouted(observed[k].n)))
    /\ [][\A n \in 1..Len(sent) : RelayLookup(n) => RoutedByRegistryNow(n)]_vars
    /\ [][\A r \in awaiting :
             r.st = "pending" =>
                 \E x \in awaiting' :
                     /\ x.msg = r.msg
                     /\ x.then = r.then
                     /\ (x.st = "fulfilled" => (RelayLookup(r.msg.n) /\ x.went = Route(r.msg)))
                     /\ (x.st = "pending" => lookups'[r.msg.n] = "none")]_vars

\* C32's case: a message to an id registered from one iframe was taken up
\* under an "async" observer; while the promise was pending that Client's
\* UNREGISTER and another Client's REGISTER of the id were processed, and the
\* message went to the second Client's window; another message, whose target
\* is registered, had its observer's promise rejected and went nowhere.
C32_Witness ==
    \E r, x \in awaiting :
        /\ r.st = "fulfilled" /\ r.then = "w1" /\ r.went = "w2"
        /\ lastEvent[r.msg.to].count = 2
        /\ x.st = "rejected"
        /\ MapHas(subscribers, x.msg.to)
        /\ lookups[x.msg.n] = "none"

====
